---- MODULE Spec2Model ----
(***************************************************************************)
(* The weekly-update survey bot of src/bot.py as a state machine.          *)
(*                                                                         *)
(* The dispatcher of python-telegram-bot runs one handler at a time, so    *)
(* every handler is one atomic action.  Every call into the transport      *)
(* (answer/send/delete) or into the sheet store (create/grant/append/get)  *)
(* may raise; an action takes, as the input `f`, the set of calls that     *)
(* raise during this run of the handler, and follows the code's try/except *)
(* structure from there.  A raise of query.answer(), the first statement   *)
(* of button, leaves everything as it was: that run is a stuttering step.  *)
(* The text a handler sends from an except branch is taken as sent.        *)
(* Chats are private chats: the chat id is the user id.                    *)
(***************************************************************************)
EXTENDS Integers, Sequences, FiniteSets, TLC

\* ------------------------------------------------------------------ bounds
InitQuestions == 2     \* the catalogue starts with this many of its questions
MaxQuestions == 2      \* /editquestions add is not taken beyond this length
MaxAnswers == 3        \* a session is not extended beyond this length
MaxMsgs == 2           \* live messages with controls per chat
MaxSheets == 2         \* tables ever created in the store
MaxRows == 1           \* data rows a participant ever appends to the store
MaxQueryRows == 3      \* data rows of a table that /see_answers reads
MaxNow == 8            \* the clock stops here (days)
TickDays == 8          \* days that pass in one step of the clock

\* --------------------------------------------------------------- constants
MAIN_ADMIN_ID == 1
Users == {1, 2}
Participants == {2}       \* the users who fill in the form
Texts == {"a", "b"}
NewQuestions == {"q5"}

\* The questions of the source.  Sessions over all four are out of reach of the
\* search, so the model starts from the first InitQuestions of them, a catalogue that
\* /editquestions remove reaches.
Catalogue == <<"q1", "q2", "q3", "q4">>

None == 0              \* Python's None, for message ids and table ids
NoDate == -1           \* Python's None, for last_sheet_creation_date

VARIABLES
    started,                   \* main() has run
    questions,                 \* the catalogue
    responses,                 \* dict user id -> list of answers
    user_data,                 \* context.user_data[...]['prev_message_id'] per user
    ADMIN_IDS,                 \* the sub-admin roster
    current_spreadsheet_id,
    week_count,
    last_sheet_creation_date,
    spreadsheet_ids,           \* dict week number -> table id
    sheets,                    \* the store: table id -> [header, rows]
    chat,                      \* the transport: per user, the live messages with controls
    now,                       \* the clock, in days
    last,                      \* the last update of a participant and the branch
                               \* its handler ended in
    cut,                       \* history: a back navigation has discarded answers of
                               \* the user's session since it began
    denied,                    \* the rejection the last operator command ended in
    fanout,                    \* the admins the last commit addressed and reached
    shown                      \* the reply to the last see_answers press

vars == <<started, questions, responses, user_data, ADMIN_IDS, current_spreadsheet_id,
          week_count, last_sheet_creation_date, spreadsheet_ids, sheets, chat, now, last,
          cut, denied, fanout, shown>>

period == <<current_spreadsheet_id, week_count, last_sheet_creation_date, spreadsheet_ids>>

\* ------------------------------------------------------------ Python values
\* d with key k removed (del d[k]); d itself when k is no key.
DictDel(d, k) == [x \in (DOMAIN d) \ {k} |-> d[x]]

\* d with d[k] = v (the key is added when missing).
DictSet(d, k, v) == [x \in (DOMAIN d) \cup {k} |-> IF x = k THEN v ELSE d[x]]

\* s[:k] for k >= 0
Prefix(s, k) == SubSeq(s, 1, IF k < Len(s) THEN k ELSE Len(s))

\* list.pop(i) with a 1-based i
RemoveAt(s, i) == SubSeq(s, 1, i - 1) \o SubSeq(s, i + 1, Len(s))

Out(op, user, text, out) == [op |-> op, user |-> user, text |-> text, out |-> out]

\* The reply "You are not authorized ..." / "Only the main admin can ..." to user.
Denial(op, user) == [op |-> op, user |-> user]
NoDenial == Denial("", None)

NoFanout == [to |-> {}, got |-> {}]

\* The replies of see_answers: the latest answers, or "User's responses not found."
Answers(name, timestamp, pairs) ==
    [found |-> TRUE, name |-> name, timestamp |-> timestamp, pairs |-> pairs]
NotFound == [found |-> FALSE, name |-> <<>>, timestamp |-> NoDate, pairs |-> <<>>]

\* ------------------------------------------------------------------- Init
Init ==
    /\ started = FALSE
    /\ questions = SubSeq(Catalogue, 1, InitQuestions)
    /\ responses = <<>>
    /\ user_data = [u \in Users |-> None]
    /\ ADMIN_IDS = {}
    /\ current_spreadsheet_id = None
    /\ week_count = 1
    /\ last_sheet_creation_date = NoDate
    /\ spreadsheet_ids = <<>>
    /\ sheets = <<>>
    /\ chat = [u \in Users |-> {}]
    /\ now = 0
    /\ last = Out("init", None, "", "")
    /\ cut = [u \in Users |-> FALSE]
    /\ denied = NoDenial
    /\ fanout = NoFanout
    /\ shown = NotFound

\* ------------------------------------------------------- the sheet store
\* Variant: the role of the sender is not looked at.
IsAdmin_anyone(u) == TRUE

IsAdmin(u) == u \in ADMIN_IDS \/ u = MAIN_ADMIN_ID

\* header = ['User ID', 'Name', 'Username', 'Date'] + questions
Header == <<"User ID", "Name", "Username", "Date">> \o questions

\* The store hands out table ids; none is ever handed out twice.
NewSheetId == Cardinality(DOMAIN sheets) + 1

RowsStored == LET RECURSIVE Sum(_)
                  Sum(S) == IF S = {} THEN 0
                            ELSE LET t == CHOOSE x \in S : TRUE
                                 IN Len(sheets[t].rows) + Sum(S \ {t})
              IN Sum(DOMAIN sheets)

\* The data rows of user u in the store, as <<table, position>>.
RowsOf(u) ==
    UNION {{<<t, i>> : i \in {j \in 1..Len(sheets[t].rows) : sheets[t].rows[j][1] = u}} :
              t \in DOMAIN sheets}

Outcomes == {"create_failed", "grant_failed", "ok"}

\* Variant: the week is counted as soon as the table exists, before the grants.
create_new_sheet_counting_early(o) ==
    LET id == NewSheetId
        made == DictSet(sheets, id, [title |-> week_count, header |-> Header, rows |-> <<>>])
        same == [current |-> current_spreadsheet_id, week |-> week_count,
                 date |-> last_sheet_creation_date, ids |-> spreadsheet_ids,
                 sheets |-> sheets, ret |-> None]
    IN  IF o = "create_failed" THEN same
        ELSE IF o = "grant_failed"
        THEN [same EXCEPT !.current = id, !.sheets = made, !.week = week_count + 1]
        ELSE [current |-> id, week |-> week_count + 1, date |-> now,
              ids |-> DictSet(spreadsheet_ids, week_count, id), sheets |-> made, ret |-> id]

\* create_new_sheet(): the globals and the store after the call, and what it returns.
\* o says how far the calls get: spreadsheets().create raises, or one of the two
\* permissions().create raises, or none does.
create_new_sheet(o) ==
    LET id == NewSheetId
        made == DictSet(sheets, id, [title |-> week_count, header |-> Header, rows |-> <<>>])
        same == [current |-> current_spreadsheet_id, week |-> week_count,
                 date |-> last_sheet_creation_date, ids |-> spreadsheet_ids,
                 sheets |-> sheets, ret |-> None]
    IN  IF o = "create_failed" THEN same
        ELSE IF o = "grant_failed" THEN [same EXCEPT !.current = id, !.sheets = made]
        ELSE [current |-> id, week |-> week_count + 1, date |-> now,
              ids |-> DictSet(spreadsheet_ids, week_count, id), sheets |-> made, ret |-> id]

CanCreate(o) == o = "create_failed" \/ Cardinality(DOMAIN sheets) < MaxSheets

\* main(): current_spreadsheet_id = create_new_sheet(), then the bot starts polling.
main(o) ==
    /\ ~started
    /\ CanCreate(o)
    /\ LET r == create_new_sheet(o)
       IN  /\ current_spreadsheet_id' = r.ret
           /\ week_count' = r.week
           /\ last_sheet_creation_date' = r.date
           /\ spreadsheet_ids' = r.ids
           /\ sheets' = r.sheets
    /\ started' = TRUE
    /\ UNCHANGED <<questions, responses, user_data, ADMIN_IDS, chat, now, last, cut, denied,
                   fanout, shown>>

\* /newweek
new_week(u, o) ==
    /\ started
    /\ IF ~IsAdmin(u)
       THEN /\ UNCHANGED <<period, sheets>>
            /\ denied' = Denial("new_week", u)
       ELSE /\ CanCreate(o)
            /\ denied' = NoDenial
            /\ LET r == create_new_sheet(o)
               IN  /\ current_spreadsheet_id' = r.current
                   /\ week_count' = r.week
                   /\ last_sheet_creation_date' = r.date
                   /\ spreadsheet_ids' = r.ids
                   /\ sheets' = r.sheets
    /\ UNCHANGED <<started, questions, responses, user_data, ADMIN_IDS, chat, now, last, cut,
                   fanout, shown>>

\* /listweeks: the lines of the reply, one per registered week.
list_weeks == {<<w, spreadsheet_ids[w]>> : w \in DOMAIN spreadsheet_ids}

\* Time passes.
Tick ==
    /\ now + TickDays <= MaxNow
    /\ now' = now + TickDays
    /\ UNCHANGED <<started, questions, responses, user_data, ADMIN_IDS, period, sheets, chat, last,
                   cut, denied, fanout, shown>>

\* -------------------------------------------------------------- the transport
\* A live message with controls: the menu (button start_form), a question prompt
\* (button back_to_question_<idx-1>, or back_to_start when idx = 0) or the completion
\* notice (button back_to_start).  Message ids are opaque: a new message gets the
\* least id that no live message and no recorded prev_message_id holds.
Msg(id, kind, idx) == [id |-> id, kind |-> kind, idx |-> idx]

Ids(c) == {m.id : m \in c}

FreshId(c, prev) ==
    CHOOSE i \in 1..(MaxMsgs + 2) :
        /\ i \notin Ids(c) \cup {prev}
        /\ \A j \in 1..(i - 1) : j \in Ids(c) \cup {prev}

\* bot.delete_message: raises when the call fails or the message is gone.
delete_message(c, id, fails) ==
    IF fails \/ id \notin Ids(c)
    THEN [raised |-> TRUE, chat |-> c]
    ELSE [raised |-> FALSE, chat |-> {m \in c : m.id # id}]

\* send_question(chat_id, question_index, context) in a chat c whose recorded
\* prev_message_id is prev: the chat and the record afterwards, and what was sent.
send_question(c, prev, question_index, f) ==
    IF question_index >= Len(questions)
    THEN [chat |-> c, prev |-> prev, out |-> "raised"]          \* IndexError, line 216
    ELSE LET c1 == IF prev # None
                   THEN delete_message(c, prev, "delete_prev" \in f).chat
                   ELSE c
             id == FreshId(c1, prev)
         IN  IF "send" \notin f
             THEN [chat |-> c1 \cup {Msg(id, "question", question_index)},
                   prev |-> id, out |-> "question"]
             ELSE [chat |-> c1, prev |-> prev, out |-> "send_error"]

\* start(update, context): the menu is sent, or the error text.
start_reply(c, prev, f) ==
    IF "send" \notin f
    THEN [chat |-> c \cup {Msg(FreshId(c, prev), "menu", 0)}, prev |-> prev, out |-> "menu"]
    ELSE [chat |-> c, prev |-> prev, out |-> "start_error"]

Fits(c) == Cardinality(c) <= MaxMsgs

\* /start
start(u, f) ==
    /\ started
    /\ LET r == start_reply(chat[u], user_data[u], f)
       IN  /\ Fits(r.chat)
           /\ chat' = [chat EXCEPT ![u] = r.chat]
           /\ last' = Out("start", u, "", r.out)
    /\ UNCHANGED <<started, questions, responses, user_data, ADMIN_IDS, period, sheets, now,
                   cut, denied, fanout, shown>>

\* ------------------------------------------------------------- the catalogue
\* The catalogue after /editquestions [add <text> | remove <number>] of the main
\* admin: add appends, remove pops the 1-based position when it is in range, and
\* every other command only gets a reply.
edited(command, text, number) ==
    IF command = "add" THEN Append(questions, text)
    ELSE IF command = "remove" /\ 0 <= number - 1 /\ number - 1 < Len(questions)
    THEN RemoveAt(questions, number)
    ELSE questions

\* /editquestions: only the main admin edits.
edit_questions(u, command, text, number) ==
    /\ started
    /\ IF u # MAIN_ADMIN_ID
       THEN /\ UNCHANGED questions
            /\ denied' = Denial("edit_questions", u)
       ELSE /\ command = "add" => Len(questions) < MaxQuestions
            /\ questions' = edited(command, text, number)
            /\ denied' = NoDenial
    /\ UNCHANGED <<started, responses, user_data, ADMIN_IDS, period, sheets, chat, now, last,
                   cut, fanout, shown>>

\* --------------------------------------------------------------- the sessions
\* Variant: a session that exists is kept as it is.
begin_keeping(u) == IF u \in DOMAIN responses THEN responses ELSE DictSet(responses, u, <<>>)

\* responses[user_id] = []                                   (start_form)
begin(u) == DictSet(responses, u, <<>>)

\* Variant: the sessions of all users are dropped.
cancel_all(u) == [x \in {} |-> <<>>]

\* if user_id in responses: del responses[user_id]           (back_to_start)
cancel(u) == DictDel(responses, u)

\* responses[user_id] = responses[user_id][:question_index]  (back_to_question_<n>)
navigate_back(u, question_index) == DictSet(responses, u, Prefix(responses[u], question_index))

\* responses[user_id].append(current_response)
record_answer(u, text) == DictSet(responses, u, Append(responses[u], text))

\* Variant: the session is deleted before the result of the save is known.
commit_session_dropped(u, text, saved) == DictDel(responses, u)

\* Variant: the session is never deleted.
commit_session_kept(u, text, saved) == record_answer(u, text)

\* The session map after the try block of receive_response: the session is deleted
\* once save_response_to_sheet has returned, and kept, with the answer just appended,
\* when it raised.
commit_session(u, text, saved) == IF saved THEN DictDel(responses, u) ELSE record_answer(u, text)

\* The callback data of the button under message m.
CallbackData(m) ==
    IF m.kind = "menu" THEN "start_form"
    ELSE IF m.kind = "final" \/ m.idx = 0 THEN "back_to_start"
    ELSE "back_to_question"

\* button(update, context) for a press by u on the live message m.
button_effect(u, m, f) ==
    LET same == [responses |-> responses, chat |-> chat[u], prev |-> user_data[u],
                 out |-> "raised"]
        d == delete_message(chat[u], m.id, "delete" \in f)
    IN  IF CallbackData(m) = "start_form" THEN
            IF d.raised THEN [same EXCEPT !.responses = begin(u)]
            ELSE LET sq == send_question(d.chat, None, 0, f)
                 IN  [responses |-> begin(u), chat |-> sq.chat, prev |-> sq.prev,
                      out |-> sq.out]
        ELSE IF CallbackData(m) = "back_to_start" THEN
            IF d.raised THEN [same EXCEPT !.responses = cancel(u)]
            ELSE LET st == start_reply(d.chat, None, f)
                 IN  [responses |-> cancel(u), chat |-> st.chat, prev |-> None,
                      out |-> st.out]
        ELSE IF u \notin DOMAIN responses THEN same                  \* KeyError, line 202
        ELSE IF d.raised THEN [same EXCEPT !.responses = navigate_back(u, m.idx - 1)]
        ELSE LET sq == send_question(d.chat, user_data[u], m.idx - 1, f)
             IN  [responses |-> navigate_back(u, m.idx - 1), chat |-> sq.chat,
                  prev |-> sq.prev, out |-> sq.out]

button(u, m, f) ==
    /\ started
    /\ m \in chat[u]
    /\ LET r == button_effect(u, m, f)
       IN  /\ Fits(r.chat)
           /\ responses' = r.responses
           /\ chat' = [chat EXCEPT ![u] = r.chat]
           /\ user_data' = [user_data EXCEPT ![u] = r.prev]
           /\ last' = Out("button", u, CallbackData(m), r.out)
           /\ cut' = [cut EXCEPT ![u] =
                         IF CallbackData(m) # "back_to_question" THEN FALSE
                         ELSE IF u \notin DOMAIN responses THEN @
                         ELSE @ \/ Len(r.responses[u]) < Len(responses[u])]
    /\ UNCHANGED <<started, questions, ADMIN_IDS, period, sheets, now, denied, fanout, shown>>

\* ------------------------------------------------------------- the submission
Name(u) == <<"name", u>>
Username(u) == <<"username", u>>

\* datetime.now().strftime("%Y-%m-%d %H:%M:%S"): the clock counts whole days, which
\* the format keeps.
Stamp(t) == t

\* Variant: the row is built from the answers without the one just received.
save_row_without_last(u, user_responses) ==
    <<u, Name(u), Username(u), Stamp(now)>> \o SubSeq(user_responses, 1, Len(user_responses) - 1)

\* values = [[user.id, name, username, date] + user_responses]
save_row(u, user_responses) == <<u, Name(u), Username(u), Stamp(now)>> \o user_responses

RowAnswers(row) == SubSeq(row, 5, Len(row))

\* sheet.values().append(spreadsheetId=current_spreadsheet_id, ...): the store after it.
append_row(row) ==
    [sheets EXCEPT ![current_spreadsheet_id].rows = Append(@, row)]

\* The append of save_response_to_sheet returns: there is a table to append to and
\* the call does not raise.
Saved(f) == current_spreadsheet_id # None /\ "append" \notin f

\* The call that delivers the notice of a commit to admin a.
NotifyCall(a) == IF a = MAIN_ADMIN_ID THEN "notify_main" ELSE "notify_sub"

\* Variant: a delivery to a sub-admin that raises ends the loop, which reaches the
\* main admin last.
fan_out_aborting(f) ==
    LET to == ADMIN_IDS \cup {MAIN_ADMIN_ID}
    IN  [to |-> to,
         got |-> {a \in to : /\ NotifyCall(a) \notin f
                              /\ a = MAIN_ADMIN_ID =>
                                    \A b \in ADMIN_IDS : NotifyCall(b) \notin f}]

\* for admin_id in ADMIN_IDS + [MAIN_ADMIN_ID]: try send_message except log.  The
\* admins addressed, and those the notice reached.
fan_out(f) ==
    LET to == ADMIN_IDS \cup {MAIN_ADMIN_ID}
    IN  [to |-> to, got |-> {a \in to : NotifyCall(a) \notin f}]

\* Variant: a text from a user without a session opens one.
not_started_begins(u) ==
    [responses |-> begin(u), chat |-> chat[u], prev |-> user_data[u], sheets |-> sheets,
     fanout |-> fanout, out |-> "not_started"]

\* The else branch of receive_response: no session, the user is told to start the form.
not_started(u) ==
    [responses |-> responses, chat |-> chat[u], prev |-> user_data[u], sheets |-> sheets,
     fanout |-> fanout, out |-> "not_started"]

\* receive_response(update, context) for the text message `text` of user u.
receive_effect(u, text, f) ==
    LET c == chat[u]
        prev == user_data[u]
        same == [responses |-> responses, chat |-> c, prev |-> prev, sheets |-> sheets,
                 fanout |-> fanout, out |-> "raised"]
    IN  IF u \notin DOMAIN responses THEN not_started(u)
        ELSE IF Len(responses[u]) + 1 < Len(questions) THEN
            IF "delete" \in f THEN [same EXCEPT !.responses = record_answer(u, text)]
            ELSE LET sq == send_question(c, prev, Len(responses[u]) + 1, f)
                 IN  [responses |-> record_answer(u, text), chat |-> sq.chat,
                      prev |-> sq.prev, sheets |-> sheets, fanout |-> fanout,
                      out |-> sq.out]
        ELSE IF ~Saved(f)
        THEN [same EXCEPT !.responses = commit_session(u, text, FALSE),
                          !.out = "save_error"]
        ELSE LET done == [same EXCEPT
                             !.responses = commit_session(u, text, TRUE),
                             !.sheets = append_row(save_row(u, Append(responses[u], text))),
                             !.fanout = fan_out(f),
                             !.out = "save_error"]
                 dp == delete_message(c, prev, "delete_prev" \in f)
                 c2 == IF prev # None THEN dp.chat ELSE c
                 id == FreshId(c2, None)
             IN  IF "delete" \in f THEN done
                 ELSE IF prev # None /\ dp.raised THEN done
                 ELSE IF "send" \in f THEN [done EXCEPT !.chat = c2, !.prev = None]
                 ELSE [done EXCEPT !.chat = c2 \cup {Msg(id, "final", 0)}, !.prev = id,
                                   !.out = "completed"]

receive_response(u, text, f) ==
    /\ started
    /\ u \in DOMAIN responses => Len(responses[u]) < MaxAnswers
    /\ LET r == receive_effect(u, text, f)
       IN  /\ Fits(r.chat)
           /\ r.sheets # sheets => Cardinality(RowsOf(u)) < MaxRows
           /\ responses' = r.responses
           /\ chat' = [chat EXCEPT ![u] = r.chat]
           /\ user_data' = [user_data EXCEPT ![u] = r.prev]
           /\ sheets' = r.sheets
           /\ fanout' = r.fanout
           /\ last' = Out("receive_response", u, text, r.out)
    /\ UNCHANGED <<started, questions, ADMIN_IDS, period, now, cut, denied, shown>>

\* ------------------------------------------------------------------ the roster
\* The roster after /addadmin <user_id> of the main admin: the id is appended unless
\* it is on the roster already.
added(new_admin_id) == ADMIN_IDS \cup {new_admin_id}

\* The roster after /removeadmin <user_id> of the main admin.
removed(admin_id) == ADMIN_IDS \ {admin_id}

\* /addadmin: only the main admin adds.
add_admin(u, new_admin_id) ==
    /\ started
    /\ IF u # MAIN_ADMIN_ID
       THEN /\ UNCHANGED ADMIN_IDS
            /\ denied' = Denial("add_admin", u)
       ELSE /\ ADMIN_IDS' = added(new_admin_id)
            /\ denied' = NoDenial
    /\ UNCHANGED <<started, questions, responses, user_data, period, sheets, chat, now, last,
                   cut, fanout, shown>>

\* /removeadmin: only the main admin removes.
remove_admin(u, admin_id) ==
    /\ started
    /\ IF u # MAIN_ADMIN_ID
       THEN /\ UNCHANGED ADMIN_IDS
            /\ denied' = Denial("remove_admin", u)
       ELSE /\ ADMIN_IDS' = removed(admin_id)
            /\ denied' = NoDenial
    /\ UNCHANGED <<started, questions, responses, user_data, period, sheets, chat, now, last,
                   cut, fanout, shown>>

\* ----------------------------------------------------------------- the answers
\* int(row[0]) and datetime.strptime(row[3], "%Y-%m-%d %H:%M:%S"): the store hands
\* back the cells as they were written, and the format keeps the whole days the
\* clock counts.
int(cell) == cell
strptime(cell) == cell

\* zip(questions, user_responses)
zip(s, t) == [i \in 1..(IF Len(s) < Len(t) THEN Len(s) ELSE Len(t)) |-> <<s[i], t[i]>>]

\* if latest_timestamp is None or timestamp > latest_timestamp
later_row(timestamp, latest_timestamp) ==
    latest_timestamp = NoDate \/ timestamp > latest_timestamp

\* The loop of see_answers over the data rows: (latest_timestamp, user_name,
\* user_responses) after all rows, None where no row has matched.
latest(rows, user_id) ==
    LET RECURSIVE loop(_)
        loop(n) ==
            IF n = 0 THEN [timestamp |-> NoDate, name |-> <<>>, user_responses |-> <<>>]
            ELSE LET acc == loop(n - 1)
                     row == rows[n]
                 IN  IF int(row[1]) = user_id /\ later_row(strptime(row[4]), acc.timestamp)
                     THEN [timestamp |-> strptime(row[4]), name |-> row[2],
                           user_responses |-> RowAnswers(row)]
                     ELSE acc
    IN  loop(Len(rows))

\* The reply of see_answers for the button see_answers_<user_id>.
answers_reply(user_id) ==
    LET acc == latest(sheets[current_spreadsheet_id].rows, user_id)
    IN  IF acc.user_responses # <<>>
        THEN Answers(acc.name, acc.timestamp, zip(questions, acc.user_responses))
        ELSE NotFound

\* see_answers(update, context): a press on the button under a notice.  When the
\* read of the active table raises, nothing is replied.
see_answers(user_id, f) ==
    /\ started
    /\ IF current_spreadsheet_id = None \/ "get" \in f
       THEN UNCHANGED shown
       ELSE shown' = answers_reply(user_id)
    /\ UNCHANGED <<started, questions, responses, user_data, ADMIN_IDS, period, sheets, chat,
                   now, last, cut, denied, fanout>>

\* --------------------------------------------------------------------- Next
TransportCalls == {"delete", "delete_prev", "send"}
StoreCalls == {"append"}
NotifyCalls == {NotifyCall(a) : a \in Users}
Commands == {"add", "remove"}

\* Everything the program can do.
Next ==
    \/ \E o \in Outcomes : main(o)
    \/ \E u \in Users, o \in Outcomes : new_week(u, o)
    \/ Tick
    \/ \E u \in Users, f \in SUBSET {"send"} : start(u, f)
    \/ \E u \in Users, c \in Commands, t \in NewQuestions, n \in 1..MaxQuestions :
          edit_questions(u, c, t, n)
    \/ \E u \in Users : \E m \in chat[u], f \in SUBSET TransportCalls : button(u, m, f)
    \/ \E u \in Users, t \in Texts,
             f \in SUBSET (TransportCalls \cup StoreCalls \cup NotifyCalls) :
          receive_response(u, t, f)
    \/ \E u \in Users, a \in Users : add_admin(u, a)
    \/ \E u \in Users, a \in Users : remove_admin(u, a)
    \/ \E u \in Users, f \in SUBSET {"get"} : see_answers(u, f)

Spec == Init /\ [][Next]_vars

\* The form with a catalogue that the main admin edits meanwhile and a store that may
\* refuse the row; the transport works.
NextSession ==
    \/ \E o \in {"ok", "create_failed"} : main(o)
    \/ \E u \in Participants : start(u, {})
    \/ \E c \in Commands, t \in NewQuestions, n \in 1..MaxQuestions :
          edit_questions(MAIN_ADMIN_ID, c, t, n)
    \/ \E u \in Participants : \E m \in chat[u] : button(u, m, {})
    \/ \E u \in Participants, t \in Texts, f \in SUBSET StoreCalls : receive_response(u, t, f)

SpecSession == Init /\ [][NextSession]_vars

\* The form over a transport and a store whose calls may raise; the catalogue is fixed.
NextChat ==
    \/ \E o \in {"ok", "create_failed"} : main(o)
    \/ \E u \in Participants, f \in SUBSET {"send"} : start(u, f)
    \/ \E u \in Participants : \E m \in chat[u], f \in SUBSET TransportCalls : button(u, m, f)
    \/ \E u \in Participants, t \in Texts, f \in SUBSET (TransportCalls \cup StoreCalls) :
          receive_response(u, t, f)

SpecChat == Init /\ [][NextChat]_vars

\* The weeks: rotation, the clock and the submissions that land in the tables; the
\* transport works and the catalogue is fixed.
NextPeriod ==
    \/ \E o \in Outcomes : main(o)
    \/ \E o \in Outcomes : new_week(MAIN_ADMIN_ID, o)
    \/ Tick
    \/ \E u \in Participants : start(u, {})
    \/ \E u \in Participants : \E m \in chat[u] : button(u, m, {})
    \/ \E u \in Participants, t \in Texts, f \in SUBSET StoreCalls : receive_response(u, t, f)

SpecPeriod == Init /\ [][NextPeriod]_vars

\* The live menus of user u.
Menus(u) == {m \in chat[u] : m.kind = "menu"}

\* Two users fill in the form side by side.  One of them opens the form from the menu
\* and answers; the other presses every button, and for that user the store may refuse
\* the row and the transport a deletion.  The catalogue is fixed.
NextPair ==
    \/ main("ok")
    \/ \E u \in Users : start(u, {})
    \/ \E m \in Menus(MAIN_ADMIN_ID) : button(MAIN_ADMIN_ID, m, {})
    \/ receive_response(MAIN_ADMIN_ID, "a", {})
    \/ \E u \in Participants : \E m \in chat[u], f \in SUBSET {"delete"} : button(u, m, f)
    \/ \E u \in Participants, f \in {{}, {"append"}, {"delete"}} :
          receive_response(u, "a", f)

SpecPair == Init /\ [][NextPair]_vars

\* Two users open the form from the menu and submit while the clock runs; the store
\* and the transport work and the catalogue is fixed.
NextCommits ==
    \/ main("ok")
    \/ Tick
    \/ \E u \in Users : start(u, {})
    \/ \E u \in Users : \E m \in Menus(u) : button(u, m, {})
    \/ \E u \in Users : receive_response(u, "a", {})

SpecCommits == Init /\ [][NextCommits]_vars

\* The operator commands, issued by every user.
NextRoles ==
    \/ \E o \in {"ok", "create_failed"} : main(o)
    \/ \E u \in Users, o \in Outcomes : new_week(u, o)
    \/ \E u \in Users, c \in Commands, t \in NewQuestions, n \in 1..MaxQuestions :
          edit_questions(u, c, t, n)
    \/ \E u \in Users, a \in Users : add_admin(u, a)
    \/ \E u \in Users, a \in Users : remove_admin(u, a)

SpecRoles == Init /\ [][NextRoles]_vars

\* The commits of a participant and their notices to a roster that the main admin
\* changes; the deliveries to the admins may raise.
NextNotice ==
    \/ main("ok")
    \/ \E a \in Users : add_admin(MAIN_ADMIN_ID, a)
    \/ \E a \in Users : remove_admin(MAIN_ADMIN_ID, a)
    \/ \E u \in Participants : start(u, {})
    \/ \E u \in Participants : \E m \in chat[u] : button(u, m, {})
    \/ \E u \in Participants, f \in SUBSET NotifyCalls : receive_response(u, "a", f)

SpecNotice == Init /\ [][NextNotice]_vars

\* The tables see_answers may find: up to MaxQueryRows rows of the users, appended as
\* the clock advanced, with one or two answers each.
QueryRow(u, t, user_responses) == <<u, Name(u), Username(u), Stamp(t)>> \o user_responses

QueryRows ==
    {QueryRow(u, t, r) : u \in Users, t \in {0, TickDays}, r \in {<<"a">>, <<"b", "a">>}}

QueryTables ==
    {rows \in UNION {[1..n -> QueryRows] : n \in 0..MaxQueryRows} :
        \A i \in 1..(Len(rows) - 1) : rows[i][4] <= rows[i + 1][4]}

InitQuery ==
    /\ started = TRUE
    /\ questions = SubSeq(Catalogue, 1, InitQuestions)
    /\ responses = <<>>
    /\ user_data = [u \in Users |-> None]
    /\ ADMIN_IDS = {}
    /\ current_spreadsheet_id = 1
    /\ week_count = 2
    /\ last_sheet_creation_date = 0
    /\ spreadsheet_ids = (1 :> 1)
    /\ \E rows \in QueryTables : sheets = (1 :> [title |-> 1, header |-> Header, rows |-> rows])
    /\ chat = [u \in Users |-> {}]
    /\ now = TickDays
    /\ last = Out("init", None, "", "")
    /\ cut = [u \in Users |-> FALSE]
    /\ denied = NoDenial
    /\ fanout = NoFanout
    /\ shown = NotFound

\* An admin looks up the answers of a user in a table that holds earlier submissions.
NextQuery == \E u \in Users, f \in SUBSET {"get"} : see_answers(u, f)

SpecQuery == InitQuery /\ [][NextQuery]_vars

\* ------------------------------------------------------------------- claims
Faults == SUBSET (TransportCalls \cup StoreCalls)

\* The text of u completes the submission: with it the session holds an answer for
\* every question of the catalogue.
Completing(u) == u \in DOMAIN responses /\ Len(responses[u]) + 1 >= Len(questions)

\* The row a step has appended to the active table.
NewRow == LET rows == sheets'[current_spreadsheet_id].rows IN rows[Len(rows)]

OneRowAppended == sheets' = [sheets EXCEPT ![current_spreadsheet_id].rows = Append(@, NewRow)]

\* The step handles the text t of u with the calls in f raising.
Receives(u, t, f) ==
    /\ last'.op = "receive_response" /\ last'.user = u /\ last'.text = t
    /\ receive_response(u, t, f)

\* The step handles a press of u on the message m with the calls in f raising.
Presses(u, m, f) ==
    /\ last'.op = "button" /\ last'.user = u
    /\ button(u, m, f)

LivePrompts(u) == {m \in chat[u] : m.kind \in {"question", "final"}}

\* C1: when the append of a completed submission raises, the participant's session is
\* not removed: after the handler it holds the answers, the last one included, and no
\* row has been stored.
C1_SessionKeptWhenAppendFails ==
    [][\A u \in Participants, t \in Texts, f \in Faults :
          (Completing(u) /\ ~Saved(f) /\ Receives(u, t, f))
              => /\ u \in DOMAIN responses'
                 /\ responses'[u] = Append(responses[u], t)
                 /\ sheets' = sheets]_vars

C1_Witness ==
    /\ last.op = "receive_response" /\ last.out = "save_error"
    /\ last.user \in DOMAIN responses
    /\ Len(questions) = 2
    /\ Len(responses[last.user]) = Len(questions)
    /\ RowsStored = 0

\* C2: after the append has failed once, the retry of the same participant appends
\* exactly one row, whose answers are exactly the answers the session held when the
\* first attempt failed.
C2_RetryAppendsTheHeldAnswers ==
    [][\A u \in Participants, t \in Texts, f \in Faults :
          (/\ last.op = "receive_response" /\ last.user = u /\ last.out = "save_error"
           /\ u \in DOMAIN responses
           /\ sheets' # sheets
           /\ Receives(u, t, f))
              => OneRowAppended /\ RowAnswers(NewRow) = responses[u]]_vars

\* C3: every session holds at most as many answers as the catalogue has questions.
C3_AnswersWithinCatalogue ==
    \A u \in DOMAIN responses : Len(responses[u]) <= Len(questions)

\* C4: the row a completed submission appends holds, after the four leading cells, the
\* answers of the session at the moment of completion, in their order: the answers
\* kept by the back navigations followed by the answer just received.  Answers cut by
\* a back navigation are not in the session, so they are not in the row.
C4_RowIsTheSessionAtCompletion ==
    [][\A u \in Participants, t \in Texts, f \in Faults :
          (sheets' # sheets /\ Receives(u, t, f))
              => /\ OneRowAppended
                 /\ NewRow[1] = u
                 /\ RowAnswers(NewRow) = Append(responses[u], t)]_vars

C4_Witness ==
    /\ last.op = "receive_response" /\ last.out = "completed"
    /\ cut[last.user]
    /\ current_spreadsheet_id \in DOMAIN sheets
    /\ \E i \in DOMAIN sheets[current_spreadsheet_id].rows :
          RowAnswers(sheets[current_spreadsheet_id].rows[i]) = <<"b", "b">>

\* C5: the handler of a text removes the session exactly when it has appended the
\* row, and it appends one row and removes the session whenever the text completes the
\* submission and the append returns.
C5_SessionEndsWithTheRow ==
    [][\A u \in Participants, t \in Texts, f \in Faults :
          (u \in DOMAIN responses /\ Receives(u, t, f))
              => /\ (u \notin DOMAIN responses') <=> (sheets' # sheets)
                 /\ sheets' # sheets => OneRowAppended
                 /\ (Completing(u) /\ Saved(f)) => u \notin DOMAIN responses']_vars

C5_Witness ==
    /\ last.op = "receive_response" /\ last.out = "completed"
    /\ last.user \notin DOMAIN responses
    /\ RowsStored = 1

\* C6: a text of a participant without a session is answered by the prompt to start
\* the form; the sessions, the recorded message ids, the weeks, the store, the chat
\* and the catalogue stay as they were.
C6_NotStartedChangesNothing ==
    [][\A u \in Participants, t \in Texts, f \in Faults :
          (u \notin DOMAIN responses /\ Receives(u, t, f))
              => /\ last' = Out("receive_response", u, t, "not_started")
                 /\ UNCHANGED <<responses, user_data, period, sheets, chat, questions>>]_vars

C6_Witness ==
    /\ last.op = "receive_response" /\ last.out = "not_started"
    /\ last.user \notin DOMAIN responses
    /\ started

\* C7: a back navigation whose target is no index of the catalogue, or whose
\* participant has no session, leaves the sessions as they were and sends no prompt.
C7_InvalidNavigationChangesNothing ==
    [][\A u \in Participants : \A m \in chat[u], f \in SUBSET TransportCalls :
          (/\ CallbackData(m) = "back_to_question"
           /\ (u \notin DOMAIN responses \/ m.idx - 1 >= Len(questions))
           /\ Presses(u, m, f))
              => /\ responses' = responses
                 /\ {x \in chat'[u] : x.kind = "question"} \subseteq chat[u]]_vars

\* C8: at most one question prompt or completion notice is live in a participant's chat.
C8_OneLivePrompt ==
    \A u \in Users : Cardinality(LivePrompts(u)) <= 1

\* C9: when a submission completes while no week is registered or the active week is
\* more than 7 days old, and the store works, a new week is registered and the row is
\* appended to its table.
Stale == DOMAIN spreadsheet_ids = {} \/ now - last_sheet_creation_date > 7

C9_StaleWeekRotatesAtCommit ==
    [][\A u \in Participants, t \in Texts, f \in Faults :
          (Completing(u) /\ Stale /\ "append" \notin f /\ Receives(u, t, f))
              => /\ week_count' = week_count + 1
                 /\ week_count \in DOMAIN spreadsheet_ids'
                 /\ current_spreadsheet_id' = spreadsheet_ids'[week_count]
                 /\ \A w \in DOMAIN spreadsheet_ids :
                       spreadsheet_ids'[w] # current_spreadsheet_id'
                 /\ Len(sheets'[current_spreadsheet_id'].rows) = 1]_vars

\* C10: the active table is the table registered for the highest week number (none
\* while no week is registered).
LatestRegistered ==
    IF DOMAIN spreadsheet_ids = {} THEN None
    ELSE spreadsheet_ids[CHOOSE w \in DOMAIN spreadsheet_ids :
                            \A x \in DOMAIN spreadsheet_ids : x <= w]

C10_ActiveIsLatestRegistered == current_spreadsheet_id = LatestRegistered

\* C11: the registered week numbers are exactly 1..week_count-1 after any successful
\* and failed rotations, the counter never goes back, and no step changes or removes
\* the table registered for a week.
C11_WeeksNumberedWithoutGaps ==
    /\ [](DOMAIN spreadsheet_ids = 1..(week_count - 1))
    /\ [][/\ week_count' >= week_count
          /\ \A w \in DOMAIN spreadsheet_ids :
                w \in DOMAIN spreadsheet_ids' /\ spreadsheet_ids'[w] = spreadsheet_ids[w]]_vars

C11_Witness ==
    /\ week_count = 3
    /\ DOMAIN spreadsheet_ids = {1, 2}
    /\ spreadsheet_ids[1] # spreadsheet_ids[2]

\* C12: when two completions of different participants follow one another at the same
\* time of the clock, the second one creates no week, the active week it finds is not
\* stale (the first one has rotated a stale week), and both rows are in the table
\* registered for that week.
C12_SecondCommitFindsTheNewWeek ==
    [][\A u \in Users : \A v \in Users \ {u} :
          (/\ last.op = "receive_response" /\ last.user = v /\ last.out = "completed"
           /\ \E p \in RowsOf(v) : sheets[p[1]].rows[p[2]][4] = Stamp(now)
           /\ Completing(u)
           /\ Receives(u, "a", {}))
              => /\ ~Stale
                 /\ week_count' = week_count /\ spreadsheet_ids' = spreadsheet_ids
                 /\ LET rows == sheets'[LatestRegistered].rows
                    IN  /\ Len(rows) >= 2
                        /\ rows[Len(rows) - 1][1] = v /\ rows[Len(rows) - 1][4] = Stamp(now)
                        /\ rows[Len(rows)][1] = u /\ rows[Len(rows)][4] = Stamp(now)]_vars

\* The positions of the data rows of user_id.
Matching(rows, user_id) == {i \in 1..Len(rows) : rows[i][1] = user_id}

\* C13: see_answers replies with the row of the user that has the maximum timestamp,
\* and with the later one of several rows that share it; without a row of the user it
\* replies that nothing was found.
C13_LatestRowLaterWins ==
    [][\A u \in Users :
          (current_spreadsheet_id # None /\ see_answers(u, {}))
              => LET rows == sheets[current_spreadsheet_id].rows
                     M == Matching(rows, u)
                     i == CHOOSE i \in M : \A j \in M :
                              \/ rows[j][4] < rows[i][4]
                              \/ rows[j][4] = rows[i][4] /\ j <= i
                 IN  IF M = {} THEN shown' = NotFound
                     ELSE shown' = Answers(rows[i][2], rows[i][4],
                                           zip(questions, RowAnswers(rows[i])))]_vars

\* C14: when the row of a completed submission has been appended, the session is
\* removed whichever deliveries of the notice raise, and the notice reaches every
\* admin on the roster, and the main admin, whose own delivery does not raise.
C14_FanOutToleratesFailures ==
    [][\A u \in Participants, f \in SUBSET NotifyCalls :
          (Completing(u) /\ Saved(f) /\ Receives(u, "a", f))
              => /\ OneRowAppended
                 /\ u \notin DOMAIN responses'
                 /\ last'.out = "completed"
                 /\ fanout'.to = ADMIN_IDS \cup {MAIN_ADMIN_ID}
                 /\ fanout'.got = {a \in ADMIN_IDS \cup {MAIN_ADMIN_ID} :
                                      NotifyCall(a) \notin f}]_vars

C14_Witness ==
    /\ last.op = "receive_response" /\ last.out = "completed"
    /\ last.user \notin DOMAIN responses
    /\ Cardinality(RowsOf(last.user)) = 1
    /\ fanout.to = {1, 2}
    /\ fanout.got = {MAIN_ADMIN_ID}

\* C15: /newweek of a user who is neither on the roster nor the main admin, and
\* /editquestions, /addadmin and /removeadmin of a user who is not the main admin, are
\* answered by the rejection and leave the weeks, the store, the catalogue and the
\* roster as they were.
C15_UnauthorizedChangesNothing ==
    [][\A u \in Users :
          /\ \A o \in Outcomes :
                (u \notin ADMIN_IDS /\ u # MAIN_ADMIN_ID /\ new_week(u, o))
                    => /\ UNCHANGED <<period, sheets, questions, ADMIN_IDS>>
                       /\ denied' = Denial("new_week", u)
          /\ \A c \in Commands, t \in NewQuestions, n \in 1..MaxQuestions :
                (u # MAIN_ADMIN_ID /\ edit_questions(u, c, t, n))
                    => /\ UNCHANGED <<period, sheets, questions, ADMIN_IDS>>
                       /\ denied' = Denial("edit_questions", u)
          /\ \A a \in Users :
                (u # MAIN_ADMIN_ID /\ (add_admin(u, a) \/ remove_admin(u, a)))
                    => /\ UNCHANGED <<period, sheets, questions, ADMIN_IDS>>
                       /\ denied'.user = u]_vars

C15_Witness ==
    /\ denied = Denial("new_week", 2)
    /\ 2 \notin ADMIN_IDS
    /\ ADMIN_IDS # {}
    /\ week_count = 2

\* C16: while a session exists the catalogue holds at least one question.
C16_CatalogueNonEmptyInSession == DOMAIN responses # {} => Len(questions) > 0

\* C17: while a participant has a session, every live question prompt in the chat is
\* the prompt of the session's current index, the number of answers held.
C17_PromptMatchesSession ==
    \A u \in DOMAIN responses :
        \A m \in chat[u] : m.kind = "question" => m.idx = Len(responses[u])

\* The step is the handler of an update of u: /start, a press or a text, with any calls
\* raising.
ActsAs(u) ==
    /\ last'.user = u
    /\ \/ last'.op = "start" /\ \E f \in SUBSET {"send"} : start(u, f)
       \/ last'.op = "button" /\ \E m \in chat[u], f \in SUBSET TransportCalls : button(u, m, f)
       \/ last'.op = "receive_response" /\ \E t \in Texts, f \in Faults : receive_response(u, t, f)

\* C18: the handler of an update of one user, whether it ends normally or in an error
\* of the transport or of the store, leaves the session and the recorded message id of
\* every other user as they were.
C18_OthersUntouched ==
    [][\A u \in Users :
          ActsAs(u) =>
              \A v \in Users \ {u} :
                  /\ (v \in DOMAIN responses') <=> (v \in DOMAIN responses)
                  /\ v \in DOMAIN responses => responses'[v] = responses[v]
                  /\ user_data'[v] = user_data[v]]_vars

C18_Witness ==
    /\ last.op = "receive_response" /\ last.user = 2 /\ last.out = "save_error"
    /\ 2 \in DOMAIN responses
    /\ 1 \in DOMAIN responses
    /\ responses[1] = <<"a">>
    /\ user_data[1] # None

\* C19: a press on "Back" to question k by a participant whose session holds more than
\* k answers, with the transport working, leaves the session with its first k answers,
\* sends the prompt of question k and records it, and deletes the pressed prompt and
\* the prompt recorded before.
C19_BackTruncatesAndShows ==
    [][\A u \in Participants : \A m \in chat[u] :
          (/\ CallbackData(m) = "back_to_question"
           /\ u \in DOMAIN responses
           /\ m.idx - 1 < Len(responses[u])
           /\ Presses(u, m, {}))
              => /\ u \in DOMAIN responses'
                 /\ responses'[u] = SubSeq(responses[u], 1, m.idx - 1)
                 /\ Msg(user_data'[u], "question", m.idx - 1) \in chat'[u]
                 /\ last'.out = "question"
                 /\ m \notin chat'[u]
                 /\ \A x \in chat[u] : x.id = user_data[u] => x \notin chat'[u]]_vars

\* C20: a press on the button of the menu leaves the participant with an empty
\* session, whatever the session was before (none, some answers, or all answers after
\* a failed save) and whichever transport calls raise; the other sessions stay, and a
\* press that finds the session empty already leaves the sessions as they are.
C20_BeginGivesEmptySession ==
    [][\A u \in Participants : \A m \in chat[u], f \in SUBSET TransportCalls :
          (CallbackData(m) = "start_form" /\ Presses(u, m, f))
              => /\ responses' = DictSet(responses, u, <<>>)
                 /\ (u \in DOMAIN responses /\ responses[u] = <<>>) => responses' = responses]_vars

C20_Witness ==
    /\ last.op = "button" /\ last.text = "start_form"
    /\ last.user \in DOMAIN responses
    /\ responses[last.user] = <<>>
    /\ Cardinality({m \in chat[last.user] : m.kind = "question" /\ m.idx = 0}) = 2

\* C21: a press on "Back to Start", whichever transport calls raise, leaves the
\* participant without a session and with no recorded message id, and leaves the other
\* sessions, the weeks, the store, the catalogue and the roster as they were; without
\* a session before, the handler does not end in an exception and the sessions stay
\* as they were.
C21_CancelClearsSessionAndCursor ==
    [][\A u \in Participants : \A m \in chat[u], f \in SUBSET TransportCalls :
          (CallbackData(m) = "back_to_start" /\ Presses(u, m, f))
              => /\ u \notin DOMAIN responses'
                 /\ user_data'[u] = None
                 /\ responses' = DictDel(responses, u)
                 /\ UNCHANGED <<period, sheets, questions, ADMIN_IDS>>
                 /\ \A v \in Users \ {u} : user_data'[v] = user_data[v]
                 /\ u \notin DOMAIN responses => /\ responses' = responses
                                                 /\ last'.out # "raised"]_vars

\* The step has sent a prompt or the completion notice to u and recorded its id.
NewContentRecorded(u) ==
    /\ last'.out \in {"question", "completed"}
    /\ \E m \in chat'[u] \ chat[u] : /\ m.kind \in {"question", "final"}
                                      /\ m.id = user_data'[u]

\* C22: when the deletion of the recorded message raises and the other transport and
\* store calls work, an answer of a participant in a session and a press on "Back" in
\* a session are still followed by the new prompt or the completion notice, whose id
\* is recorded.
C22_ShowToleratesFailedDeletion ==
    [][\A u \in Participants :
          (u \in DOMAIN responses /\ user_data[u] # None /\ current_spreadsheet_id # None)
              => /\ \A t \in Texts : Receives(u, t, {"delete_prev"}) => NewContentRecorded(u)
                 /\ \A m \in chat[u] :
                       (/\ CallbackData(m) = "back_to_question"
                        /\ Presses(u, m, {"delete_prev"})) => NewContentRecorded(u)]_vars

\* C23: a text of a participant that is answered with the save-error message has
\* appended no row; a text that has appended a row is answered with the completion
\* notice, whichever transport calls raise.
C23_SaveErrorOnlyWithoutRow ==
    [][\A u \in Participants : \A t \in Texts, f \in Faults :
          Receives(u, t, f)
              => /\ last'.out = "save_error" => sheets' = sheets
                 /\ sheets' # sheets
                       => /\ last'.out = "completed"
                          /\ \E m \in chat'[u] \ chat[u] : m.kind = "final"]_vars

====
